---- MODULE Spec2Model ----
(***************************************************************************)
(* Model of the semantic markdown chunker: parse_markdown_to_tree builds a *)
(* heading tree from the flat sections of a document, and                  *)
(* process_tree_to_chunks walks it in post-order, emits one chunk per      *)
(* content-bearing node and greedily merges adjacent chunks under a token  *)
(* budget.                                                                 *)
(*                                                                         *)
(* Text is modelled at character level: a Python str is a sequence of      *)
(* one-character strings, so split, strip, join, substring search and the  *)
(* heading regular expression are computed as the code computes them.      *)
(* An Optional value is a sequence of length at most one: None is <<>>.    *)
(***************************************************************************)
EXTENDS Integers, Sequences, FiniteSets, TLC

VARIABLES
    markdown_text,   \* the document handed to parse_markdown_to_tree
    parsed_nodes,    \* the sections the segment source yields for the document
    pc,              \* position of the program
    node_idx,        \* 1-based index of the next section of the loop
    root,            \* the tree under construction / the parsed tree
    outcome,         \* "none", "tree", "InvalidInputError"
    max_tokens,      \* the budget of the current process_tree_to_chunks call
    stack,           \* call stack of process_tree_to_chunks, innermost last
    result           \* the list returned by the outermost call

vars == <<markdown_text, parsed_nodes, pc, node_idx, root, outcome,
          max_tokens, stack, result>>

-----------------------------------------------------------------------------
(* Bounds of the model *)

MaxSections == 3

\* budgets tried for max_tokens
BudgetSet == {2, 3, 7, 10}

-----------------------------------------------------------------------------
(* Python str operations on character sequences *)

NL == "\n"
SP == " "

IsSpace(c) == c \in {SP, NL}

\* s.startswith(sub) at 1-based position i
MatchAt(s, sub, i) ==
    /\ i >= 1
    /\ i + Len(sub) - 1 <= Len(s)
    /\ SubSeq(s, i, i + Len(sub) - 1) = sub

\* 1-based index of the first occurrence of sub in s at or after from, 0 if none
FindFrom(s, sub, from) ==
    LET hits == {i \in from..(Len(s) - Len(sub) + 1) : MatchAt(s, sub, i)}
    IN IF hits = {} THEN 0 ELSE CHOOSE i \in hits : \A j \in hits : i <= j

\* sub in s
Contains(s, sub) == FindFrom(s, sub, 1) # 0

RECURSIVE StrSplit(_, _)
\* s.split(sep), sep non-empty
StrSplit(s, sep) ==
    LET i == FindFrom(s, sep, 1)
    IN IF i = 0 THEN <<s>>
       ELSE <<SubSeq(s, 1, i - 1)>> \o StrSplit(SubSeq(s, i + Len(sep), Len(s)), sep)

\* s.count(sub): non-overlapping occurrences
StrCount(s, sub) == Len(StrSplit(s, sub)) - 1

RECURSIVE StrJoin(_, _)
\* sep.join(parts)
StrJoin(parts, sep) ==
    IF parts = <<>> THEN <<>>
    ELSE IF Len(parts) = 1 THEN parts[1]
    ELSE parts[1] \o sep \o StrJoin(Tail(parts), sep)

\* s.strip(chars) for a set of characters
StripSet(s, cs) ==
    LET keep == {i \in 1..Len(s) : s[i] \notin cs}
    IN IF keep = {} THEN <<>>
       ELSE LET lo == CHOOSE i \in keep : \A j \in keep : i <= j
                hi == CHOOSE i \in keep : \A j \in keep : i >= j
            IN SubSeq(s, lo, hi)

\* s.strip()
Strip(s) == StripSet(s, {SP, NL})

\* c * n
Repeat(c, n) == [i \in 1..n |-> c]

\* lines.remove(x) guarded by "x in lines": drops the first occurrence
RemoveFirst(lines, x) ==
    LET hits == {i \in 1..Len(lines) : lines[i] = x}
    IN IF hits = {} THEN lines
       ELSE LET k == CHOOSE i \in hits : \A j \in hits : i <= j
            IN SubSeq(lines, 1, k - 1) \o SubSeq(lines, k + 1, Len(lines))

-----------------------------------------------------------------------------
(* token_encoder: the tokenizer, taken as the deterministic word-count      *)
(* tokenizer (one token per maximal run of non-whitespace characters)       *)

get_token_length(content) ==
    Cardinality({i \in 1..Len(content) :
                    /\ ~IsSpace(content[i])
                    /\ (i = 1 \/ IsSpace(content[i - 1]))})

-----------------------------------------------------------------------------
(* Documents: up to MaxSections sections, each an instance of one of the    *)
(* section shapes below.  The body words of the k-th section are the k-th   *)
(* body letter, so the text of a node is recognisable in the output.        *)

BodyLetters == <<"a", "b", "c", "d", "e", "f">>

HASH == "#"
SLASH == "/"
DASHES == <<"-", "-", "-">>

\* n words c separated by single spaces
Words(c, n) == StrJoin(Repeat(<<c>>, n), <<SP>>)

ShapeSet == 1..7

\* the section of shape t with body letter c: its raw text and header_path
Section(t, c) ==
    CASE t = 1 -> [text |-> <<HASH, SP, "T">>,
                   header_path |-> <<SLASH>>]
      [] t = 2 -> [text |-> <<HASH, SP, "T", NL>> \o Words(c, 2),
                   header_path |-> <<SLASH>>]
      [] t = 3 -> [text |-> <<HASH, HASH, SP, "A", NL>> \o Words(c, 2) \o <<NL>> \o DASHES,
                   header_path |-> <<SLASH, "T", SLASH>>]
      [] t = 4 -> [text |-> <<HASH, HASH, SP, "B", NL>> \o Words(c, 3),
                   header_path |-> <<SLASH, "T", SLASH>>]
      [] t = 5 -> [text |-> <<HASH, HASH, SP, "A", NL>> \o Words(c, 10),
                   header_path |-> <<SLASH, "T", SLASH>>]
      [] t = 6 -> [text |-> Words(c, 2) \o <<NL>> \o DASHES \o <<NL, c>>,
                   header_path |-> <<SLASH>>]
      [] t = 7 -> [text |-> <<HASH, HASH, HASH, SP, "C", NL, c>>,
                   header_path |-> <<SLASH, "T", SLASH, "A", SLASH>>]

\* documents for which the segment source yields nothing
EmptyDocs == {<<>>, <<SP, NL>>, <<NL, NL>>, <<"x">>}

-----------------------------------------------------------------------------
(* parse_markdown_to_tree *)

page_break == <<NL>> \o DASHES \o <<NL>>

None == <<>>
Some(x) == <<x>>

TreeElement(header, content, token_length, children, pages) ==
    [header |-> header, content |-> content, token_length |-> token_length,
     children |-> children, pages |-> pages]

\* pages = markdown_text.split(page_break)
DocPages == StrSplit(markdown_text, page_break)

\* lines of the section with the first "---" line removed
SectionLines(node_text) == RemoveFirst(StrSplit(node_text, <<NL>>), DASHES)

\* length of the run of '#' at the start of the line
HashRun(line) ==
    LET stop == {i \in 1..Len(line) : line[i] # HASH}
    IN IF stop = {} THEN Len(line)
       ELSE (CHOOSE i \in stop : \A j \in stop : i <= j) - 1

\* re.match(r"^(#+)\s+(.*)$", heading_line) succeeds
HeaderMatch(heading_line) ==
    LET k == HashRun(heading_line)
    IN k >= 1 /\ k < Len(heading_line) /\ IsSpace(heading_line[k + 1])

\* header_match.group(2).strip()
HeaderText(heading_line) ==
    Strip(SubSeq(heading_line, HashRun(heading_line) + 1, Len(heading_line)))

\* page_index: 0-based index of the first page holding the section's first line, else -1
PageIndex(node_text) ==
    LET first == StrSplit(node_text, <<NL>>)[1]
        hits == {i \in 1..Len(DocPages) : Contains(DocPages[i], first)}
    IN IF hits = {} THEN -1
       ELSE (CHOOSE i \in hits : \A j \in hits : i <= j) - 1

\* page_count = set(range(page_index, page_index + node_text.count(page_break) + 1))
PageCount(node_text) ==
    PageIndex(node_text)..(PageIndex(node_text) + StrCount(node_text, page_break))

\* path_parts
PathParts(path_str) ==
    LET inner == StripSet(path_str, {SLASH})
    IN IF inner # <<>> THEN StrSplit(inner, <<SLASH>>) ELSE <<>>

\* new_child, the leaf built from one section
NewChild(node) ==
    LET lines == SectionLines(node.text)
        heading_line == IF lines # <<>> THEN Strip(lines[1]) ELSE <<>>
        content == IF HeaderMatch(heading_line)
                   THEN Strip(StrJoin(Tail(lines), <<NL>>))
                   ELSE node.text
    IN TreeElement(IF HeaderMatch(heading_line) THEN Some(HeaderText(heading_line)) ELSE None,
                   content, get_token_length(content), <<>>, PageCount(node.text))

\* faulty variant of FoundChild: the walk descends into the last matching child
FoundLastChild(element, part) ==
    LET hits == {i \in 1..Len(element.children) : element.children[i].header = Some(part)}
    IN IF hits = {} THEN 0 ELSE CHOOSE i \in hits : \A j \in hits : i >= j

\* index of the first child whose header equals part, 0 if none
FoundChild(element, part) ==
    LET hits == {i \in 1..Len(element.children) : element.children[i].header = Some(part)}
    IN IF hits = {} THEN 0 ELSE CHOOSE i \in hits : \A j \in hits : i <= j

RECURSIVE InsertLeaf(_, _, _)
\* the walk along path_parts from current_element, then the append of new_child
InsertLeaf(current_element, path_parts, new_child) ==
    IF path_parts = <<>>
    THEN [current_element EXCEPT !.children = Append(@, new_child)]
    ELSE LET k == FoundChild(current_element, path_parts[1])
         IN IF k # 0
            THEN [current_element EXCEPT !.children[k] =
                      InsertLeaf(@, Tail(path_parts), new_child)]
            ELSE [current_element EXCEPT !.children =
                      Append(@, InsertLeaf(TreeElement(Some(path_parts[1]), <<>>, 0, <<>>, {}),
                                           Tail(path_parts), new_child))]

EmptyTree == TreeElement(None, <<>>, 0, <<>>, {})

\* raise ValueError("Empty markdown text provided")
ParseRejectEmpty ==
    /\ pc = "start"
    /\ Strip(markdown_text) = <<>>
    /\ pc' = "error"
    /\ outcome' = "InvalidInputError"
    /\ UNCHANGED <<markdown_text, parsed_nodes, node_idx, root, max_tokens, stack, result>>

\* faulty variant of ParseRejectNoContent: a document without sections yields an empty tree
ParseAcceptNoContent ==
    /\ pc = "start"
    /\ Strip(markdown_text) # <<>>
    /\ parsed_nodes = <<>>
    /\ root' = EmptyTree
    /\ pc' = "parsed"
    /\ outcome' = "tree"
    /\ UNCHANGED <<markdown_text, parsed_nodes, node_idx, max_tokens, stack, result>>

\* raise ValueError("No content found in markdown text")
ParseRejectNoContent ==
    /\ pc = "start"
    /\ Strip(markdown_text) # <<>>
    /\ parsed_nodes = <<>>
    /\ pc' = "error"
    /\ outcome' = "InvalidInputError"
    /\ UNCHANGED <<markdown_text, parsed_nodes, node_idx, root, max_tokens, stack, result>>

\* root = TreeElement(header=None, ...)
ParseBegin ==
    /\ pc = "start"
    /\ Strip(markdown_text) # <<>>
    /\ parsed_nodes # <<>>
    /\ root' = EmptyTree
    /\ node_idx' = 1
    /\ pc' = "parsing"
    /\ UNCHANGED <<markdown_text, parsed_nodes, outcome, max_tokens, stack, result>>

\* one iteration of "for node in parsed_nodes"
ParseSection ==
    /\ pc = "parsing"
    /\ node_idx <= Len(parsed_nodes)
    /\ LET node == parsed_nodes[node_idx]
       IN root' = InsertLeaf(root, PathParts(node.header_path), NewChild(node))
    /\ node_idx' = node_idx + 1
    /\ UNCHANGED <<markdown_text, parsed_nodes, pc, outcome, max_tokens, stack, result>>

\* return root
ParseReturn ==
    /\ pc = "parsing"
    /\ node_idx > Len(parsed_nodes)
    /\ pc' = "parsed"
    /\ outcome' = "tree"
    /\ UNCHANGED <<markdown_text, parsed_nodes, node_idx, root, max_tokens, stack, result>>

-----------------------------------------------------------------------------
(* text_splitter: split_text_into_sentences *)

MinSplitTokens == 10

\* splitter.split_text(text): the groups the sentence splitter may return.
\* Where it cuts is the library's choice: either the whole stripped text as
\* one group, or two groups cut at a whitespace, after the first word or
\* after half of the words.
SentenceSplitter(text) ==
    {<<Strip(text)>>} \cup
    {<<Strip(SubSeq(text, 1, p - 1)), Strip(SubSeq(text, p + 1, Len(text)))>> :
        p \in {q \in 2..(Len(text) - 1) :
                 /\ IsSpace(text[q])
                 /\ ~IsSpace(text[q - 1])
                 /\ get_token_length(SubSeq(text, 1, q - 1))
                       \in {1, get_token_length(text) \div 2}
                 /\ Strip(SubSeq(text, q + 1, Len(text))) # <<>>}}

\* the possible results of split_text_into_sentences(text), parent_text = ""
split_text_into_sentences(text) ==
    IF get_token_length(text) < MinSplitTokens
    THEN {<<>>}
    ELSE SentenceSplitter(text)

-----------------------------------------------------------------------------
(* combine_chunks *)

SemanticChunk(content, token_length, headers, pages) ==
    [content |-> content, token_length |-> token_length,
     headers |-> headers, pages |-> pages]

\* common_prefix_length of two header lists
CommonPrefixLength(h1, h2) ==
    LET n == IF Len(h1) < Len(h2) THEN Len(h1) ELSE Len(h2)
        diff == {i \in 1..n : h1[i] # h2[i]}
    IN IF diff = {} THEN n
       ELSE (CHOOSE i \in diff : \A j \in diff : i <= j) - 1

\* faulty variant of HeadingLevel: the levels restart at 1 below the common prefix
HeadingLevelFromOne(common_prefix_length, k) == k

\* level of the k-th unique header: enumerate(unique_headers, start=common_prefix_length + 1)
HeadingLevel(common_prefix_length, k) == common_prefix_length + k

\* f"{'#' * level} {header}" for every header beyond the common prefix
UniqueHeadings(headers, common_prefix_length, lead) ==
    [k \in 1..(Len(headers) - common_prefix_length) |->
        lead \o Repeat(HASH, HeadingLevel(common_prefix_length, k)) \o <<SP>>
             \o headers[common_prefix_length + k]]

\* combined_content
CombinedContent(chunk1, chunk2) ==
    LET p == CommonPrefixLength(chunk1.headers, chunk2.headers)
    IN IF chunk1.headers = chunk2.headers
       THEN chunk1.content \o <<NL, NL>> \o chunk2.content
       ELSE StrJoin(UniqueHeadings(chunk1.headers, p, <<>>) \o <<chunk1.content>>
                    \o UniqueHeadings(chunk2.headers, p, <<NL>>) \o <<chunk2.content>>,
                    <<NL, NL>>)

\* faulty variant of CombinedHeaders: the merge keeps the first chunk's headers
CombinedHeadersOfFirst(chunk1, chunk2) == chunk1.headers

\* headers=chunk1.headers[:common_prefix_length]
CombinedHeaders(chunk1, chunk2) ==
    SubSeq(chunk1.headers, 1, CommonPrefixLength(chunk1.headers, chunk2.headers))

\* faulty variant of CombinedPages: the merge keeps the first chunk's pages only
CombinedPagesOfFirst(chunk1, chunk2) == chunk1.pages

\* pages=chunk1.pages.union(chunk2.pages)
CombinedPages(chunk1, chunk2) == chunk1.pages \cup chunk2.pages

combine_chunks(chunk1, chunk2) ==
    SemanticChunk(CombinedContent(chunk1, chunk2),
                  get_token_length(CombinedContent(chunk1, chunk2)),
                  CombinedHeaders(chunk1, chunk2),
                  CombinedPages(chunk1, chunk2))

-----------------------------------------------------------------------------
(* process_tree_to_chunks, one stack frame per active call *)

Frame(node, current_headers) ==
    [root |-> node, current_headers |-> current_headers,
     child |-> 1, chunks |-> <<>>, phase |-> "children",
     i |-> 1, current_chunk |-> None, combined_chunks |-> <<>>]

Top == stack[Len(stack)]

SetTop(f) == [stack EXCEPT ![Len(stack)] = f]

\* faulty variant of ChildHeaders: the child's header is not added to the path
ChildHeadersOfParent(current_headers, child) == current_headers

\* child_headers: current_headers plus the child's header when it is truthy
ChildHeaders(current_headers, child) ==
    IF child.header # None /\ child.header[1] # <<>>
    THEN Append(current_headers, child.header[1])
    ELSE current_headers

\* faulty variants of WithinLimit: a budget that is two tokens too generous, and a
\* comparison that rejects a candidate of exactly max_tokens
WithinLimitLoose(potential_combined, limit) == potential_combined.token_length <= limit + 2

WithinLimitStrict(potential_combined, limit) == potential_combined.token_length < limit

\* potential_combined.token_length <= max_tokens
WithinLimit(potential_combined, limit) == potential_combined.token_length <= limit

\* faulty variant of Oversized: content of exactly max_tokens goes to the splitter
OversizedOrEqual(element, limit) == element.token_length >= limit

\* faulty variant of Extend: the child's chunks are put before the chunks gathered so far
ExtendInFront(chunks, child_chunks) == child_chunks \o chunks

\* chunks.extend(child_chunks)
Extend(chunks, child_chunks) == chunks \o child_chunks

\* root.token_length > max_tokens
Oversized(element, limit) == element.token_length > limit

\* the caller starts process_tree_to_chunks(root, max_tokens)
ChunkStart ==
    /\ pc = "parsed"
    /\ \E m \in BudgetSet : max_tokens' = m
    /\ stack' = <<Frame(root, <<>>)>>
    /\ pc' = "chunking"
    /\ UNCHANGED <<markdown_text, parsed_nodes, node_idx, root, outcome, result>>

\* for child in root.children: recurse
CallChild ==
    /\ pc = "chunking"
    /\ Top.phase = "children"
    /\ Top.child <= Len(Top.root.children)
    /\ LET child == Top.root.children[Top.child]
       IN stack' = Append(stack, Frame(child, ChildHeaders(Top.current_headers, child)))
    /\ UNCHANGED <<markdown_text, parsed_nodes, pc, node_idx, root, outcome, max_tokens, result>>

ChildrenDone == pc = "chunking" /\ Top.phase = "children" /\ Top.child > Len(Top.root.children)

\* root.content.strip() is empty: the node emits nothing
SkipBlank ==
    /\ ChildrenDone
    /\ Strip(Top.root.content) = <<>>
    /\ stack' = SetTop([Top EXCEPT !.phase = "merge"])
    /\ UNCHANGED <<markdown_text, parsed_nodes, pc, node_idx, root, outcome, max_tokens, result>>

\* oversized content: one chunk per group of the splitter
EmitSplit ==
    /\ ChildrenDone
    /\ Strip(Top.root.content) # <<>>
    /\ Oversized(Top.root, max_tokens)
    /\ \E content_chunks \in split_text_into_sentences(Top.root.content) :
          stack' = SetTop([Top EXCEPT
              !.chunks = @ \o [k \in 1..Len(content_chunks) |->
                                  SemanticChunk(content_chunks[k],
                                                get_token_length(content_chunks[k]),
                                                Top.current_headers, Top.root.pages)],
              !.phase = "merge"])
    /\ UNCHANGED <<markdown_text, parsed_nodes, pc, node_idx, root, outcome, max_tokens, result>>

\* content within the budget: one chunk with the node's content
EmitWhole ==
    /\ ChildrenDone
    /\ Strip(Top.root.content) # <<>>
    /\ ~Oversized(Top.root, max_tokens)
    /\ stack' = SetTop([Top EXCEPT
          !.chunks = Append(@, SemanticChunk(Top.root.content, Top.root.token_length,
                                             Top.current_headers, Top.root.pages)),
          !.phase = "merge"])
    /\ UNCHANGED <<markdown_text, parsed_nodes, pc, node_idx, root, outcome, max_tokens, result>>

Merging == pc = "chunking" /\ Top.phase = "merge" /\ Top.i <= Len(Top.chunks)

\* current_chunk is None: take the chunk as the accumulator
MergeFirst ==
    /\ Merging
    /\ Top.current_chunk = None
    /\ stack' = SetTop([Top EXCEPT !.current_chunk = Some(Top.chunks[Top.i]), !.i = @ + 1])
    /\ UNCHANGED <<markdown_text, parsed_nodes, pc, node_idx, root, outcome, max_tokens, result>>

\* the combination fits: it becomes the accumulator
MergeAccept ==
    /\ Merging
    /\ Top.current_chunk # None
    /\ LET potential_combined == combine_chunks(Top.current_chunk[1], Top.chunks[Top.i])
       IN /\ WithinLimit(potential_combined, max_tokens)
          /\ stack' = SetTop([Top EXCEPT !.current_chunk = Some(potential_combined),
                                         !.i = @ + 1])
    /\ UNCHANGED <<markdown_text, parsed_nodes, pc, node_idx, root, outcome, max_tokens, result>>

\* the combination does not fit: flush the accumulator, restart from the chunk
MergeFlush ==
    /\ Merging
    /\ Top.current_chunk # None
    /\ LET potential_combined == combine_chunks(Top.current_chunk[1], Top.chunks[Top.i])
       IN /\ ~WithinLimit(potential_combined, max_tokens)
          /\ stack' = SetTop([Top EXCEPT
                !.combined_chunks = Append(@, Top.current_chunk[1]),
                !.current_chunk = Some(Top.chunks[Top.i]),
                !.i = @ + 1])
    /\ UNCHANGED <<markdown_text, parsed_nodes, pc, node_idx, root, outcome, max_tokens, result>>

\* the list a finished frame returns: combined_chunks plus the last accumulator
Returned(f) ==
    IF f.current_chunk # None THEN Append(f.combined_chunks, f.current_chunk[1])
    ELSE f.combined_chunks

Returning == pc = "chunking" /\ Top.phase = "merge" /\ Top.i > Len(Top.chunks)

\* return combined_chunks into the parent's chunks.extend(child_chunks)
ReturnToParent ==
    /\ Returning
    /\ Len(stack) > 1
    /\ LET parent == stack[Len(stack) - 1]
       IN stack' = [SubSeq(stack, 1, Len(stack) - 1) EXCEPT ![Len(stack) - 1] =
                       [parent EXCEPT !.chunks = Extend(@, Returned(Top)), !.child = @ + 1]]
    /\ UNCHANGED <<markdown_text, parsed_nodes, pc, node_idx, root, outcome, max_tokens, result>>

\* return combined_chunks of the outermost call
ReturnToCaller ==
    /\ Returning
    /\ Len(stack) = 1
    /\ result' = Returned(Top)
    /\ stack' = <<>>
    /\ pc' = "done"
    /\ UNCHANGED <<markdown_text, parsed_nodes, node_idx, root, outcome, max_tokens>>

-----------------------------------------------------------------------------
(* Specification *)

Init ==
    /\ \E n \in 0..MaxSections : \E shape \in [1..n -> ShapeSet] :
          /\ parsed_nodes = [k \in 1..n |-> Section(shape[k], BodyLetters[k])]
          /\ IF n = 0
             THEN markdown_text \in EmptyDocs
             ELSE markdown_text = StrJoin([k \in 1..n |-> parsed_nodes[k].text], <<NL>>)
    /\ pc = "start"
    /\ node_idx = 0
    /\ root = EmptyTree
    /\ outcome = "none"
    /\ max_tokens = 0
    /\ stack = <<>>
    /\ result = <<>>

Next ==
    \/ ParseRejectEmpty
    \/ ParseRejectNoContent
    \/ ParseBegin
    \/ ParseSection
    \/ ParseReturn
    \/ ChunkStart
    \/ CallChild
    \/ SkipBlank
    \/ EmitSplit
    \/ EmitWhole
    \/ MergeFirst
    \/ MergeAccept
    \/ MergeFlush
    \/ ReturnToParent
    \/ ReturnToCaller

Spec == Init /\ [][Next]_vars

-----------------------------------------------------------------------------
(* Vocabulary of the properties *)

Range(seq) == {seq[i] : i \in 1..Len(seq)}

BodyLetterSet == Range(BodyLetters)

\* the body letters occurring in a text
LettersIn(text) == Range(text) \cap BodyLetterSet

IsPrefix(h, g) == Len(h) <= Len(g) /\ SubSeq(g, 1, Len(h)) = h

RECURSIVE Flatten(_)
Flatten(seqs) == IF seqs = <<>> THEN <<>> ELSE seqs[1] \o Flatten(Tail(seqs))

RECURSIVE PostOrder(_, _)
\* the nodes of a tree, every node after all nodes of its subtrees, each with
\* the non-null headers on the path from the root of the walk to it
PostOrder(element, path) ==
    Flatten([k \in 1..Len(element.children) |->
                PostOrder(element.children[k],
                          IF element.children[k].header = None THEN path
                          ELSE Append(path, element.children[k].header[1]))])
    \o <<[node |-> element, path |-> path]>>

\* the tree nodes with their header paths
TreeNodes == Range(PostOrder(root, <<>>))

\* the lists returned by process_tree_to_chunks: a frame whose merge loop has
\* ended returns Returned(frame) as its next step
Returns ==
    IF pc = "chunking" /\ Top.phase = "merge" /\ Top.i > Len(Top.chunks)
    THEN {[list |-> Returned(Top), element |-> Top.root, path |-> Top.current_headers,
           input |-> Top.chunks]}
    ELSE {}

\* the candidate pairs of the greedy pass: the accumulator and the next chunk
Candidates ==
    IF pc = "chunking" /\ Top.phase = "merge" /\ Top.i <= Len(Top.chunks)
       /\ Top.current_chunk # None
    THEN {<<Top.current_chunk[1], Top.chunks[Top.i]>>}
    ELSE {}

\* the chunk is a group the splitter can return for an oversized node, with
\* that node's header path and pages
IsSplitterGroup(chunk) ==
    \E e \in TreeNodes :
        /\ e.node.token_length > max_tokens
        /\ chunk.headers = e.path
        /\ chunk.pages = e.node.pages
        /\ \E groups \in split_text_into_sentences(e.node.content) :
              \E k \in 1..Len(groups) : groups[k] = chunk.content

-----------------------------------------------------------------------------
(* C1 *)

-----------------------------------------------------------------------------
(* C2 *)

\* C2: in every list returned by process_tree_to_chunks, the combination of any
\* two adjacent chunks has token_length > max_tokens.
C2_LocallyOptimal ==
    /\ \A r \in Returns : \A i \in 1..(Len(r.list) - 1) :
          combine_chunks(r.list[i], r.list[i + 1]).token_length > max_tokens
    /\ pc = "done" => \A i \in 1..(Len(result) - 1) :
          combine_chunks(result[i], result[i + 1]).token_length > max_tokens

\* a finished run in which a chunk was flushed and the chunk after it is the
\* result of an accepted merge
C2_Witness ==
    /\ pc = "done"
    /\ \E i \in 1..(Len(result) - 1) :
          Cardinality(LettersIn(result[i + 1].content)) >= 2

-----------------------------------------------------------------------------
(* C3 *)

\* h is the longest sequence that is a prefix of every member of paths
IsLongestCommonPrefix(h, paths) ==
    /\ \A q \in paths : IsPrefix(h, q)
    /\ \A q \in paths : \A n \in (Len(h) + 1)..Len(q) :
          \E q2 \in paths : ~IsPrefix(SubSeq(q, 1, n), q2)

\* the tree nodes whose text is in the chunk
Constituents(chunk) ==
    {e \in TreeNodes : LettersIn(e.node.content) \cap LettersIn(chunk.content) # {}}

\* C3: the headers of combine_chunks(a, b) are the longest common prefix of
\* a.headers and b.headers, and the headers of every chunk of a returned list
\* are the longest common prefix of the header paths of the nodes merged into it.
C3_HeaderPrefix ==
    /\ \A pair \in Candidates :
          IsLongestCommonPrefix(combine_chunks(pair[1], pair[2]).headers,
                                {pair[1].headers, pair[2].headers})
    /\ \A r \in Returns : \A i \in 1..Len(r.list) :
          /\ Constituents(r.list[i]) # {}
          /\ IsLongestCommonPrefix(r.list[i].headers,
                                   {e.path : e \in Constituents(r.list[i])})

\* a returned chunk merged from nodes with different header paths, whose
\* headers are a proper, non-empty common prefix
C3_Witness ==
    \E r \in Returns : \E i \in 1..Len(r.list) :
        /\ Cardinality({e.path : e \in Constituents(r.list[i])}) >= 2
        /\ r.list[i].headers # <<>>
        /\ \A e \in Constituents(r.list[i]) : e.path # r.list[i].headers

-----------------------------------------------------------------------------
(* C4 *)

\* C4: the pages of combine_chunks(a, b) are a.pages \cup b.pages; the pages of
\* every chunk of a returned list are the union of the pages of the nodes
\* merged into it; and the output loses no page of a node that emitted a chunk.
C4_PageUnion ==
    /\ \A pair \in Candidates :
          combine_chunks(pair[1], pair[2]).pages = pair[1].pages \cup pair[2].pages
    /\ \A r \in Returns : \A i \in 1..Len(r.list) :
          r.list[i].pages = UNION {e.node.pages : e \in Constituents(r.list[i])}
    /\ pc = "done" =>
          \A e \in TreeNodes :
              (\E i \in 1..Len(result) :
                  LettersIn(e.node.content) \cap LettersIn(result[i].content) # {})
              => e.node.pages \subseteq UNION {result[i].pages : i \in 1..Len(result)}

\* a finished run with a chunk merged from nodes of different pages
C4_Witness ==
    /\ pc = "done"
    /\ \E i \in 1..Len(result) :
          /\ Cardinality(Constituents(result[i])) >= 2
          /\ \A e \in Constituents(result[i]) : e.node.pages # result[i].pages

-----------------------------------------------------------------------------
(* C5 *)

\* the lines of a text that are not empty
NonEmptyLines(text) == SelectSeq(StrSplit(text, <<NL>>), LAMBDA l : l # <<>>)

\* length of the longest common prefix of two header lists
CommonLen(h1, h2) ==
    LET common == {n \in 0..Len(h1) : IsPrefix(SubSeq(h1, 1, n), h2)}
    IN CHOOSE n \in common : \A m \in common : m <= n

\* one heading line per header beyond the first p, the header at 1-based
\* position j rendered with j '#' markers
InlineHeadings(headers, p) ==
    [k \in 1..(Len(headers) - p) |-> Repeat(HASH, p + k) \o <<SP>> \o headers[p + k]]

\* C5: when the headers differ, the content of combine_chunks(a, b) is, in
\* order, the inline headings of a beyond the common prefix, a.content, the
\* inline headings of b beyond the common prefix, b.content; when they are
\* equal it is a.content, a blank line, b.content; so every header of a and b
\* is in the merged headers or is an inline heading of the merged content.
C5_CollapseKeepsHeadings ==
    \A pair \in Candidates :
        LET a == pair[1]
            b == pair[2]
            c == combine_chunks(a, b)
            p == CommonLen(a.headers, b.headers)
        IN /\ a.headers = b.headers => c.content = a.content \o <<NL, NL>> \o b.content
           /\ a.headers # b.headers =>
                 /\ NonEmptyLines(c.content) =
                       InlineHeadings(a.headers, p) \o NonEmptyLines(a.content)
                       \o InlineHeadings(b.headers, p) \o NonEmptyLines(b.content)
                 /\ Contains(c.content, a.content)
                 /\ Contains(c.content, b.content)
           /\ \A x \in {a, b} : \A j \in 1..Len(x.headers) :
                 \/ j <= Len(c.headers) /\ c.headers[j] = x.headers[j]
                 \/ Repeat(HASH, j) \o <<SP>> \o x.headers[j] \in Range(NonEmptyLines(c.content))

\* a candidate within the budget whose two chunks both have headers beyond a
\* non-empty common prefix
C5_Witness ==
    \E pair \in Candidates :
        LET p == CommonLen(pair[1].headers, pair[2].headers)
        IN /\ p >= 1
           /\ Len(pair[1].headers) > p
           /\ Len(pair[2].headers) > p
           /\ combine_chunks(pair[1], pair[2]).token_length <= max_tokens

-----------------------------------------------------------------------------
(* C6 *)

Rejected == Strip(markdown_text) = <<>> \/ parsed_nodes = <<>>

\* C6: an empty or whitespace-only document, or one for which the segment
\* source yields no section, ends in InvalidInputError and returns no tree; any
\* other document returns a root with header None.
C6_EmptyInputRejected ==
    /\ pc = "error" => Rejected /\ outcome = "InvalidInputError"
    /\ Rejected => pc \in {"start", "error"} /\ outcome # "tree"
    /\ outcome = "tree" => ~Rejected /\ root.header = None
    /\ pc \notin {"start", "parsing", "error"} => outcome = "tree"

\* a whitespace-only document has been rejected
C6_Witness ==
    /\ pc = "error"
    /\ markdown_text # <<>>
    /\ Strip(markdown_text) = <<>>
    /\ outcome = "InvalidInputError"

-----------------------------------------------------------------------------
(* C7 *)

\* the chunks of the frame that carry the text of the frame's own node
OwnChunks(frame) ==
    {c \in Range(frame.chunks) :
        LettersIn(c.content) \cap LettersIn(frame.root.content) # {}}

\* the frame has just emitted the chunks of its own content
JustEmitted ==
    /\ pc = "chunking"
    /\ Top.phase = "merge"
    /\ Top.i = 1
    /\ Top.current_chunk = None

\* the candidate of two chunks exceeds the budget
Exceeds(x, y) == combine_chunks(x, y).token_length > max_tokens

\* Title without content, subsection A of 2 tokens, subsection B of 3 tokens
ForcedSplitDoc ==
    parsed_nodes = <<Section(1, BodyLetters[1]), Section(3, BodyLetters[2]),
                     Section(4, BodyLetters[3])>>

\* C7 as stated: when the candidate of the accumulator in[i] and the next chunk
\* in[i+1] exceeds max_tokens, both reach the output of the pass unchanged.
C7_BothReachOutputUnchanged ==
    \A r \in Returns : \A i \in 1..(Len(r.input) - 1) :
        (r.input[i] \in Range(r.list) /\ Exceeds(r.input[i], r.input[i + 1]))
        => r.input[i + 1] \in Range(r.list)

\* C7 amended: a chunk emitted for a node's own content carries the non-null
\* headers on the path from the root to the node; when the candidate of every
\* two adjacent chunks of a pass exceeds max_tokens the pass merges nothing and
\* returns its chunks unchanged; a chunk whose candidate with its predecessor
\* was rejected is returned unchanged unless it is merged with the chunk after
\* it; and Title / A (2 tokens) / B (3 tokens) with max_tokens = 3 gives
\* exactly the chunks [Title, A] and [Title, B].
C7_ForcedSplit ==
    /\ JustEmitted =>
          \A c \in OwnChunks(Top) :
              \E e \in TreeNodes : e.node = Top.root /\ c.headers = e.path
    /\ \A r \in Returns :
          /\ (\A i \in 1..(Len(r.input) - 1) : Exceeds(r.input[i], r.input[i + 1]))
                => r.list = r.input
          /\ \A i \in 1..(Len(r.input) - 1) :
                (r.input[i] \in Range(r.list) /\ Exceeds(r.input[i], r.input[i + 1]))
                => \/ r.input[i + 1] \in Range(r.list)
                   \/ /\ i + 2 <= Len(r.input)
                      /\ ~Exceeds(r.input[i + 1], r.input[i + 2])
    /\ (pc = "done" /\ ForcedSplitDoc /\ max_tokens = 3) =>
          /\ Len(result) = 2
          /\ result[1].headers = <<<<"T">>, <<"A">>>>
          /\ result[2].headers = <<<<"T">>, <<"B">>>>
          /\ result[1].content = Words(BodyLetters[2], 2)
          /\ result[2].content = Words(BodyLetters[3], 3)

\* the forced split example has run to its end
C7_Witness == pc = "done" /\ ForcedSplitDoc /\ max_tokens = 3 /\ Len(result) = 2

-----------------------------------------------------------------------------
(* C8 *)

\* the body letters of a text, in order
BodyOf(text) == SelectSeq(text, LAMBDA c : c \in BodyLetterSet)

\* the text a node contributes to the output
EmittedBody(element) ==
    IF Strip(element.content) = <<>> THEN <<>>
    ELSE IF element.token_length > max_tokens
            /\ get_token_length(element.content) < MinSplitTokens THEN <<>>
    ELSE BodyOf(element.content)

\* the text of a subtree in post-order
PostOrderBody(element) ==
    LET walk == PostOrder(element, <<>>)
    IN Flatten([k \in 1..Len(walk) |-> EmittedBody(walk[k].node)])

ListBody(list) == BodyOf(Flatten([k \in 1..Len(list) |-> list[k].content]))

\* C8: the text of every returned list is the text of the nodes in post-order:
\* descendants before the node's own content, children in child order, nothing
\* reordered, duplicated or interleaved.
C8_PostOrder ==
    /\ \A r \in Returns : ListBody(r.list) = PostOrderBody(r.element)
    /\ pc = "done" => ListBody(result) = PostOrderBody(root)

\* a finished run over a node with own content and two children with content
C8_Witness ==
    /\ pc = "done"
    /\ \E e \in TreeNodes :
          /\ Strip(e.node.content) # <<>>
          /\ Len(e.node.children) >= 2
          /\ \A k \in 1..Len(e.node.children) :
                LettersIn(e.node.children[k].content) \cap Range(ListBody(result)) # {}
          /\ LettersIn(e.node.content) \cap Range(ListBody(result)) # {}

-----------------------------------------------------------------------------
(* C10 *)

\* the indices of the output chunks that hold the text verbatim
Holders(text) == {i \in 1..Len(result) : Contains(result[i].content, text)}

\* no word of the text is in the output
Absent(text) == \A i \in 1..Len(result) : LettersIn(text) \cap LettersIn(result[i].content) = {}

\* C10: a node with non-blank content of token_length <= max_tokens has its
\* content verbatim in exactly one output chunk; non-blank content is absent
\* from the output only when its token_length exceeds max_tokens and is below
\* the splitter's minimum; and a pass drops or truncates none of its chunks.
C10_ContentConserved ==
    /\ pc = "done" =>
          \A e \in TreeNodes :
              Strip(e.node.content) # <<>> =>
                  /\ e.node.token_length <= max_tokens
                        => Cardinality(Holders(e.node.content)) = 1
                  /\ Absent(e.node.content)
                        => /\ e.node.token_length > max_tokens
                           /\ get_token_length(e.node.content) < MinSplitTokens
    /\ \A r \in Returns : \A k \in 1..Len(r.input) :
          \E i \in 1..Len(r.list) : Contains(r.list[i].content, r.input[k].content)

\* a finished run that dropped one node's content and kept another's
C10_Witness ==
    /\ pc = "done"
    /\ \E e \in TreeNodes : Strip(e.node.content) # <<>> /\ Absent(e.node.content)
    /\ \E e \in TreeNodes :
          /\ Strip(e.node.content) # <<>>
          /\ e.node.token_length <= max_tokens
          /\ Cardinality(Holders(e.node.content)) = 1

-----------------------------------------------------------------------------
(* C9 *)

RECURSIVE Positions(_)
\* the nodes of a tree as child-index paths from its root, <<>> for the root
Positions(element) ==
    {<<>>} \cup UNION {{<<k>> \o q : q \in Positions(element.children[k])} :
                          k \in 1..Len(element.children)}

RECURSIVE NodeAt(_, _)
NodeAt(element, pos) ==
    IF pos = <<>> THEN element ELSE NodeAt(element.children[pos[1]], Tail(pos))

Label(element) ==
    [header |-> element.header, content |-> element.content,
     token_length |-> element.token_length, pages |-> element.pages]

\* new is old after one section: one new leaf at the end of the section's
\* heading path, first matching children followed, missing ones created empty,
\* every node of old kept in place
SectionAdded(old, new, section) ==
    LET parts == PathParts(section.header_path)
    IN \E pos \in Positions(new) \ Positions(old) :
          /\ Len(pos) = Len(parts) + 1
          /\ NodeAt(new, pos) = NewChild(section)
          /\ pos[Len(pos)] = Len(NodeAt(new, SubSeq(pos, 1, Len(pos) - 1)).children)
          /\ \A j \in 1..Len(parts) :
                LET q == SubSeq(pos, 1, j)
                    up == SubSeq(pos, 1, j - 1)
                IN /\ NodeAt(new, q).header = Some(parts[j])
                   /\ \A k \in 1..(pos[j] - 1) :
                         NodeAt(new, up).children[k].header # Some(parts[j])
                   /\ q \notin Positions(old) =>
                         /\ Label(NodeAt(new, q)) =
                               [header |-> Some(parts[j]), content |-> <<>>,
                                token_length |-> 0, pages |-> {}]
                         /\ Len(NodeAt(new, q).children) = 1
                         /\ pos[j] = Len(NodeAt(new, up).children)
                         /\ up \in Positions(old) =>
                               \A k \in 1..Len(NodeAt(old, up).children) :
                                   NodeAt(old, up).children[k].header # Some(parts[j])
          /\ \A q \in Positions(old) :
                q \in Positions(new) /\ Label(NodeAt(new, q)) = Label(NodeAt(old, q))
          /\ Positions(new) \ Positions(old) =
                {SubSeq(pos, 1, j) : j \in 0..Len(pos)} \ Positions(old)

\* the nodes that are leaves built from sections: they alone have pages
SectionLeaves(element) ==
    {q \in Positions(element) : NodeAt(element, q).pages # {}}

\* C9: while parse_markdown_to_tree runs, the result is one tree under a root
\* of header None; every section adds exactly one leaf, as the last child of the
\* node its heading path leads to; the walk follows the first child with the
\* path component and creates an empty node only when there is none; and the
\* nodes already in the tree keep their place, so children stay in order of
\* first appearance.
C9_TreeConstruction ==
    /\ [](pc \in {"parsing", "parsed"} =>
             /\ root.header = None
             /\ Cardinality(SectionLeaves(root)) = node_idx - 1
             /\ \A q \in Positions(root) \ SectionLeaves(root) :
                   NodeAt(root, q).content = <<>> /\ NodeAt(root, q).token_length = 0)
    /\ [][ParseSection => SectionAdded(root, root', parsed_nodes[node_idx])]_vars

\* a parsed tree in which the walk created an empty node, and in which it chose
\* the first of two children with the same header
C9_Witness ==
    /\ pc = "parsed"
    /\ \E q \in Positions(root) \ SectionLeaves(root) : q # <<>>
    /\ \E q \in Positions(root) :
          \E j, k \in 1..Len(NodeAt(root, q).children) :
              /\ j < k
              /\ NodeAt(root, q).children[j].header = NodeAt(root, q).children[k].header
              /\ NodeAt(root, q).children[j].header # None
              /\ NodeAt(root, q).children[j].children # <<>>

====
